---- MODULE Spec2Model ----
(***************************************************************************)
(* Model of the Cashu mint endpoints of the LNbits cashu extension         *)
(* (lnbits/extensions/cashu/views_api.py).                                 *)
(*                                                                         *)
(* Every endpoint is an async handler.  A handler runs without             *)
(* interruption from one await to the next, so each action below is "the   *)
(* await named by pc returns, and the handler runs on to its next await    *)
(* (or to its return / raise)".  Several handlers are in flight at once    *)
(* (one per call slot) and interleave at those awaits.                     *)
(***************************************************************************)
EXTENDS Integers, Sequences, FiniteSets, TLC

\* ---------------------------------------------------------------- bounds
NCalls == 2         \* handlers in flight at the same time (slots are reused)
NHashes == 1        \* invoices the payment rail hands out to request_mint
MaxAmount == 2      \* largest amount asked of request_mint / split
MaxMsgs == 2        \* longest list of blinded messages in a request
MaxProofs == 2      \* longest list of proofs in a request

Calls == 1..NCalls
\* Payment hashes of the invoices create_invoice hands out.
Hashes == {<<"h", i>> : i \in 1..NHashes}
NoHash == <<"h", 0>>

\* ------------------------------------------------------- program constants
LIGHTNING == TRUE

\* -------------------------------------------------------------- universe
None == "none"

\* The mint registry (get_cashu): two mints on one ledger, each with its own
\* wallet and keyset; "mx" is an id no mint has.
CashuIds == {"m1", "m2", "mx"}
cashus == [m1 |-> [wallet |-> "w1", keyset_id |-> "k1"],
           m2 |-> [wallet |-> "w2", keyset_id |-> "k2"]]

get_cashu(cashu_id) ==
    IF cashu_id \in DOMAIN cashus THEN cashu_id ELSE None

\* Wallets of the payment rail: the mints' wallets and one other account.
Wallets == {"w0", "w1", "w2"}

\* Denominations a keyset signs.
Denoms == {1, 2}

\* Outbound payment requests a client may ask melt to pay, besides the mint
\* invoices themselves: X1 and X2 leave the backend, I1 is an invoice of
\* wallet w0 on the same backend.  A payment request is named by its hash.
X1 == <<"x", 1>>
X2 == <<"x", 2>>
I1 == <<"i", 1>>
ExtReqs == {X1, X2, I1}
RailHashes == Hashes \cup ExtReqs

\* Proofs a client may present: secret |-> keyset id, amount, and whether the
\* signature verifies against the keyset (the crypto is opaque).
ProofTable == [s1 |-> [id |-> "k1", amount |-> 1, C_ok |-> TRUE],
               s2 |-> [id |-> "k1", amount |-> 2, C_ok |-> TRUE],
               s3 |-> [id |-> "k2", amount |-> 1, C_ok |-> TRUE],
               f1 |-> [id |-> "k1", amount |-> 2, C_ok |-> FALSE]]
Secrets == DOMAIN ProofTable

RECURSIVE SeqsUpTo(_, _)
SeqsUpTo(S, n) ==
    IF n = 0 THEN {<<>>}
    ELSE LET shorter == SeqsUpTo(S, n - 1)
         IN  shorter \cup {Append(q, x) : q \in shorter, x \in S}

RECURSIVE sum(_)
sum(q) == IF q = <<>> THEN 0 ELSE Head(q) + sum(Tail(q))

ceil_div(a, b) == (a + b - 1) \div b

Max(a, b) == IF a >= b THEN a ELSE b

\* ----------------------------------------------------------------- state
VARIABLES
    invoices,       \* ledger.crud invoice table: hash -> Invoice or NoInvoice
    opener,         \* history: which mint's request_mint stored the invoice
    rail,           \* payment rail: <<wallet, hash>> -> payment status
    proofs_used,    \* ledger.proofs_used: secrets of spent proofs
    calls,          \* one record per call slot: arguments, pc, locals
    issuedCount,    \* history: hash -> mint_coins calls that returned promises
    issuedAmount,   \* history: hash -> total amount of the promises returned
    splitIssued     \* history: total amount of the promises split returned

vars == <<invoices, opener, rail, proofs_used, calls,
          issuedCount, issuedAmount, splitIssued>>

NoInvoice == [known |-> FALSE, amount |-> 0, issued |-> FALSE]

IdleCall ==
    [op |-> "idle", pc |-> "idle", cashu_id |-> None,
     amount |-> 0, payment_hash |-> NoHash, msgs |-> <<>>, proofs |-> <<>>,
     pr |-> None,
     invoice |-> NoInvoice, status |-> "unbound", total |-> 0,
     amount_msat |-> 0, internal |-> FALSE, fees_msat |-> 0, fee |-> 0,
     promises |-> <<>>, snd |-> <<>>, spendable |-> <<>>,
     dispatched |-> FALSE, invalidated |-> FALSE,
     after |-> FALSE, stale |-> {}, peers |-> {},
     result |-> None]

Init ==
    /\ invoices = [h \in Hashes |-> NoInvoice]
    /\ opener = [h \in Hashes |-> None]
    /\ rail = [k \in Wallets \X RailHashes |->
                 IF k = <<"w0", I1>> THEN "open" ELSE None]
    /\ proofs_used = {}
    /\ calls = [c \in Calls |-> IdleCall]
    /\ issuedCount = [h \in Hashes |-> 0]
    /\ issuedAmount = [h \in Hashes |-> 0]
    /\ splitIssued = 0

\* A slot takes a new call when it is free: never used, or its last call is over.
Free(c) == calls[c].pc \in {"idle", "done"}

\* A call begins in slot c.  History: `peers` are the slots whose call is in
\* flight at that moment; the call that was in slot c is no one's peer any more.
Begin(c, rec) ==
    calls' = [d \in Calls |->
                IF d = c
                THEN [rec EXCEPT !.peers = {e \in Calls \ {c} : ~Free(e)}]
                ELSE [calls[d] EXCEPT !.peers = @ \ {c}]]

Finish(c, rec, res) ==
    calls' = [calls EXCEPT ![c] = [rec EXCEPT !.pc = "done", !.result = res]]

Goto(c, rec, next) ==
    calls' = [calls EXCEPT ![c] = [rec EXCEPT !.pc = next]]

\* ------------------------------------------------------- the payment rail
\* lnbits.core: the payment table behind create_invoice, pay_invoice,
\* check_transaction_status and check_internal.

\* A wallet's payment on a hash is "open" (an invoice of the wallet, awaiting
\* payment), "pending" (an outgoing payment in flight), "paid" or "failed".
\* check_transaction_status(wallet, hash): the wallet's payment on that hash;
\* no such payment gives PaymentStatus(None), which is not paid.
check_transaction_status(wallet, hash) == rail[<<wallet, hash>>]

\* check_internal(hash): some wallet of this backend has a pending invoice on it.
check_internal(hash) == \E w \in Wallets : rail[<<w, hash>>] = "open"

\* fee_reserve(amount_msat): the rail's estimate, in millisatoshi.
fee_reserve(amount_msat) == Max(500, amount_msat \div 2)

\* create_invoice hands out the next unused payment hash.
UnusedHashes == {h \in Hashes : \A w \in Wallets : rail[<<w, h>>] = None}
NextHash == CHOOSE h \in UnusedHashes : \A g \in UnusedHashes : h[2] <= g[2]

\* bolt11.decode: the payment hash and the amount a payment request carries.
bolt11_decode(pr) ==
    [payment_hash |-> pr,
     amount_msat |-> IF pr \in Hashes THEN invoices[pr].amount * 1000
                     ELSE IF pr = X1 THEN 1000
                     ELSE IF pr = X2 THEN 1500
                     ELSE 2000]

\* A payment that is open or in flight settles, or fails (expires).
RailSettle(w, h) ==
    /\ rail[<<w, h>>] \in {"open", "pending"}
    /\ rail' = [rail EXCEPT ![<<w, h>>] = "paid"]
    /\ UNCHANGED <<invoices, opener, proofs_used, calls,
                   issuedCount, issuedAmount, splitIssued>>

RailFail(w, h) ==
    /\ rail[<<w, h>>] \in {"open", "pending"}
    /\ rail' = [rail EXCEPT ![<<w, h>>] = "failed"]
    /\ UNCHANGED <<invoices, opener, proofs_used, calls,
                   issuedCount, issuedAmount, splitIssued>>

\* ------------------------------------------------------------ request_mint
StartRequestMint(c, ids, amounts) ==
    /\ Free(c)
    /\ \E id \in ids, a \in amounts :
         Begin(c,
              [IdleCall EXCEPT !.op = "request_mint", !.pc = "get_cashu",
                               !.cashu_id = id, !.amount = a])
    /\ UNCHANGED <<invoices, opener, rail, proofs_used,
                   issuedCount, issuedAmount, splitIssued>>

\* await get_cashu; 404 when there is no such mint.
RequestMintGetCashu(c) ==
    LET rec == calls[c] IN
    /\ rec.op = "request_mint" /\ rec.pc = "get_cashu"
    /\ IF get_cashu(rec.cashu_id) = None
       THEN Finish(c, rec, "mint_not_found")
       ELSE Goto(c, rec, "create_invoice")
    /\ UNCHANGED <<invoices, opener, rail, proofs_used,
                   issuedCount, issuedAmount, splitIssued>>

\* await create_invoice: the rail opens a pending invoice for the mint's
\* wallet, or fails, which the except clause turns into a 500.
RequestMintCreateInvoice(c) ==
    LET rec == calls[c] IN
    /\ rec.op = "request_mint" /\ rec.pc = "create_invoice"
    /\ \/ /\ UnusedHashes # {}
          /\ rail' = [rail EXCEPT
                        ![<<cashus[rec.cashu_id].wallet, NextHash>>] = "open"]
          /\ Goto(c, [rec EXCEPT !.payment_hash = NextHash], "store_invoice")
       \/ /\ Finish(c, rec, "error")
          /\ UNCHANGED rail
    /\ UNCHANGED <<invoices, opener, proofs_used,
                   issuedCount, issuedAmount, splitIssued>>

\* The store left out (as in the line commented out above it): the pair is
\* returned with no record behind it.
RequestMintStore_Unstored(c) ==
    LET rec == calls[c] IN
    /\ rec.op = "request_mint" /\ rec.pc = "store_invoice"
    /\ Finish(c, rec, "ok")
    /\ UNCHANGED <<invoices, opener, rail, proofs_used,
                   issuedCount, issuedAmount, splitIssued>>

\* await store_lightning_invoice(Invoice(amount, pr, hash, issued=False)),
\* then return GetMintResponse; a failing store is a 500 as well.
RequestMintStore(c) ==
    LET rec == calls[c] IN
    /\ rec.op = "request_mint" /\ rec.pc = "store_invoice"
    /\ \/ /\ invoices' = [invoices EXCEPT ![rec.payment_hash] =
                            [known |-> TRUE, amount |-> rec.amount,
                             issued |-> FALSE]]
          /\ opener' = [opener EXCEPT ![rec.payment_hash] = rec.cashu_id]
          /\ Finish(c, rec, "ok")
       \/ /\ Finish(c, rec, "error")
          /\ UNCHANGED <<invoices, opener>>
    /\ UNCHANGED <<rail, proofs_used, issuedCount, issuedAmount, splitIssued>>

\* -------------------------------------------------------------- mint_coins
\* ledger._generate_promises: one blinded signature per blinded message, of
\* the message's amount, in the order of the messages.
generate_promises(B_s) == [i \in DOMAIN B_s |-> B_s[i]]

\* The issued check left out.
AlreadyIssued_Skipped(invoice) == FALSE

\* line 209: invoice.issued == True
AlreadyIssued(invoice) == invoice.issued = TRUE

\* The amount check off by one (>= for >).
AmountTooHigh_OffByOne(total_requested, invoice) ==
    total_requested >= invoice.amount

\* line 216: total_requested > invoice.amount
AmountTooHigh(total_requested, invoice) == total_requested > invoice.amount

\* Only an explicit failure rejected (status.paid == False): a pending or
\* unknown payment passes.
NotPaid_OnlyFailed(status) == status = "failed"

\* line 224: status.paid != True
NotPaid(status) == status # "paid"

StartMintCoins(c, ids, hashes, msgsets) ==
    /\ Free(c)
    /\ \E id \in ids, h \in hashes, B_s \in msgsets :
         Begin(c,
              [IdleCall EXCEPT !.op = "mint_coins", !.pc = "get_cashu",
                               !.cashu_id = id, !.payment_hash = h,
                               !.msgs = B_s,
                               !.after = (issuedCount[h] > 0)])
    /\ UNCHANGED <<invoices, opener, rail, proofs_used,
                   issuedCount, issuedAmount, splitIssued>>

\* await get_cashu; 404 when there is no such mint.
MintGetCashu(c) ==
    LET rec == calls[c] IN
    /\ rec.op = "mint_coins" /\ rec.pc = "get_cashu"
    /\ IF get_cashu(rec.cashu_id) = None
       THEN Finish(c, rec, "mint_not_found")
       ELSE Goto(c, rec, "get_invoice")
    /\ UNCHANGED <<invoices, opener, rail, proofs_used,
                   issuedCount, issuedAmount, splitIssued>>

\* await get_lightning_invoice, then the checks of lines 204-220 on the
\* invoice as it was read.
MintGetInvoice(c) ==
    LET rec == calls[c]
        invoice == invoices[rec.payment_hash]
        total_requested == sum(rec.msgs)
        read == [rec EXCEPT !.invoice = invoice, !.total = total_requested]
    IN
    /\ rec.op = "mint_coins" /\ rec.pc = "get_invoice"
    /\ IF ~LIGHTNING THEN Goto(c, rec, "check_status")
       ELSE IF ~invoice.known THEN Finish(c, read, "invoice_not_found")
       ELSE IF AlreadyIssued(invoice) THEN Finish(c, read, "already_issued")
       ELSE IF AmountTooHigh(total_requested, invoice)
            THEN Finish(c, read, "amount_too_high")
       ELSE Goto(c, read, "check_status")
    /\ UNCHANGED <<invoices, opener, rail, proofs_used,
                   issuedCount, issuedAmount, splitIssued>>

\* update_lightning_invoice(issued=True) moved up, ahead of the paid test.
MintCheckStatus_MarksFirst(c) ==
    LET rec == calls[c]
        status == check_transaction_status(cashus[rec.cashu_id].wallet,
                                           rec.payment_hash)
        got == [rec EXCEPT !.status = status]
    IN
    /\ rec.op = "mint_coins" /\ rec.pc = "check_status"
    /\ invoices' = [invoices EXCEPT ![rec.payment_hash].issued = TRUE]
    /\ IF NotPaid(status)
       THEN Finish(c, got, "not_paid")
       ELSE Goto(c, got, "generate_promises")
    /\ UNCHANGED <<opener, rail, proofs_used,
                   issuedCount, issuedAmount, splitIssued>>

\* await check_transaction_status(cashu.wallet, payment_hash), lines 222-227.
MintCheckStatus(c) ==
    LET rec == calls[c]
        status == check_transaction_status(cashus[rec.cashu_id].wallet,
                                           rec.payment_hash)
        got == [rec EXCEPT !.status = status]
    IN
    /\ rec.op = "mint_coins" /\ rec.pc = "check_status"
    /\ IF NotPaid(status)
       THEN Finish(c, got, "not_paid")
       ELSE Goto(c, got, "generate_promises")
    /\ UNCHANGED <<invoices, opener, rail, proofs_used,
                   issuedCount, issuedAmount, splitIssued>>

\* The assert stripped (python -O): an empty list goes on to the update.
MintGeneratePromises_NoAssert(c) ==
    LET rec == calls[c]
        promises == generate_promises(rec.msgs)
        got == [rec EXCEPT !.promises = promises]
    IN
    /\ rec.op = "mint_coins" /\ rec.pc = "generate_promises"
    /\ Goto(c, got, "update_invoice")
    /\ UNCHANGED <<invoices, opener, rail, proofs_used,
                   issuedCount, issuedAmount, splitIssued>>

\* await ledger._generate_promises, then assert len(promises): an empty list
\* raises inside the try and ends in a 500.
MintGeneratePromises(c) ==
    LET rec == calls[c]
        promises == generate_promises(rec.msgs)
        got == [rec EXCEPT !.promises = promises]
    IN
    /\ rec.op = "mint_coins" /\ rec.pc = "generate_promises"
    /\ IF Len(promises) = 0
       THEN Finish(c, got, "error")
       ELSE Goto(c, got, "update_invoice")
    /\ UNCHANGED <<invoices, opener, rail, proofs_used,
                   issuedCount, issuedAmount, splitIssued>>

\* await update_lightning_invoice(hash, issued=True), then return promises.
MintUpdateInvoice(c) ==
    LET rec == calls[c]
        h == rec.payment_hash
    IN
    /\ rec.op = "mint_coins" /\ rec.pc = "update_invoice"
    /\ invoices' = [invoices EXCEPT ![h].issued = TRUE]
    /\ issuedCount' = [issuedCount EXCEPT ![h] = @ + 1]
    /\ issuedAmount' = [issuedAmount EXCEPT ![h] = @ + sum(rec.promises)]
    /\ Finish(c, rec, "ok")
    /\ UNCHANGED <<opener, rail, proofs_used, splitIssued>>

\* ----------------------------------------------------- the mint engine alone
MsgLists == SeqsUpTo(Denoms, MaxMsgs)

\* One registered mint and one unknown id are enough for the mint engine.
MintIds == {"m1", "mx"}

MintStep(c) ==
    \/ StartRequestMint(c, MintIds, 0..MaxAmount)
    \/ RequestMintGetCashu(c)
    \/ RequestMintCreateInvoice(c)
    \/ RequestMintStore(c)
    \/ StartMintCoins(c, MintIds, Hashes, MsgLists)
    \/ MintGetCashu(c)
    \/ MintGetInvoice(c)
    \/ MintCheckStatus(c)
    \/ MintGeneratePromises(c)
    \/ MintUpdateInvoice(c)

RailStep(hashes) ==
    \E w \in Wallets, h \in hashes : RailSettle(w, h) \/ RailFail(w, h)

RailSettles(hashes) == \E w \in Wallets, h \in hashes : RailSettle(w, h)

NextMint == (\E c \in Calls : MintStep(c)) \/ RailStep(Hashes)

SpecMint == Init /\ [][NextMint]_vars

\* ------------------------------------------------------ claims, mint engine
MintCalls == {c \in Calls : calls[c].op = "mint_coins"}
PastIssuedCheck == {"check_status", "generate_promises", "update_invoice"}

\* C1: among all mint_coins calls against one payment hash, interleaved calls
\* included, at most one returns signatures.
C1_AtMostOneIssue == \A h \in Hashes : issuedCount[h] <= 1

\* C2: once a mint_coins call on a hash has returned signatures, the invoice's
\* issued flag is true from then on, and a mint_coins call on that hash that
\* starts afterwards never gets past the issued check: it produces no
\* signature and (on a registered mint) ends with "already issued".
C2_IssuedIsFinal ==
    /\ \A h \in Hashes : issuedCount[h] > 0 => invoices[h].issued
    /\ \A c \in MintCalls :
         calls[c].after =>
           /\ calls[c].pc \notin PastIssuedCheck
           /\ calls[c].promises = <<>>
           /\ calls[c].pc = "done" =>
                /\ calls[c].result \in {"already_issued", "mint_not_found"}
                /\ get_cashu(calls[c].cashu_id) # None =>
                     calls[c].result = "already_issued"

C2_Witness ==
    \E c \in MintCalls :
        calls[c].after /\ calls[c].pc = "done"
        /\ calls[c].result = "already_issued"

\* C3: the total amount of the signatures returned against an invoice is at
\* most the invoice's amount.
C3_IssuedWithinInvoice ==
    \A h \in Hashes :
        invoices[h].known => issuedAmount[h] <= invoices[h].amount

\* C4: mint_coins generates and returns signatures only after the rail has
\* reported the payment hash paid to that very call; a call that is told "not
\* paid" (failed, pending or unknown) ends rejected with no signature, and the
\* step that rejects it leaves every invoice as it was.
C4_StatusGate ==
    \A c \in MintCalls :
        /\ (calls[c].pc \in {"generate_promises", "update_invoice"}
            \/ calls[c].promises # <<>>
            \/ calls[c].result = "ok") => calls[c].status = "paid"
        /\ (calls[c].status \notin {"unbound", "paid"}) =>
              /\ calls[c].pc = "done" /\ calls[c].result = "not_paid"
              /\ calls[c].promises = <<>>

C4_RejectLeavesFlag ==
    \A c \in Calls :
        (calls[c].pc = "check_status" /\ calls'[c].result = "not_paid")
            => invoices' = invoices

C4_OnlyIfPaid == [] C4_StatusGate /\ [][C4_RejectLeavesFlag]_vars

C4_Witness ==
    \E c \in MintCalls :
        /\ calls[c].pc = "done" /\ calls[c].result = "not_paid"
        /\ calls[c].status = "open"
        /\ ~invoices[calls[c].payment_hash].issued

\* A finished mint_coins call that found its invoice not yet issued.
FoundUnissued(c) ==
    /\ calls[c].op = "mint_coins" /\ calls[c].pc = "done"
    /\ calls[c].invoice.known /\ ~calls[c].invoice.issued

\* The only way such a call fails: the rail did not report the invoice paid.
RailSaidNotPaid(c) ==
    /\ calls[c].result = "not_paid"
    /\ calls[c].status \in {"none", "open", "failed"}

\* C5 as stated: on a not yet issued invoice of amount A, a request summing
\* to exactly A succeeds whenever the rail reports the invoice paid, and one
\* summing to more than A is rejected as too high.
C5_Boundary_AsStated ==
    \A c \in Calls :
        FoundUnissued(c) =>
          /\ calls[c].total = calls[c].invoice.amount
                => \/ calls[c].result = "ok"
                   \/ RailSaidNotPaid(c)
          /\ calls[c].total > calls[c].invoice.amount
                => calls[c].result = "amount_too_high"

\* C5 (amended): on a not yet issued invoice of amount A, a request with a
\* non-empty list of blinded messages summing to exactly A succeeds, with one
\* signature per message, whenever the rail reports the invoice paid; one
\* summing to more than A is rejected as too high before the status query, by
\* a step that leaves every invoice as it was.
C5_BoundaryInv ==
    \A c \in Calls :
        FoundUnissued(c) =>
          /\ (calls[c].total = calls[c].invoice.amount
              /\ calls[c].msgs # <<>>)
                => \/ /\ calls[c].result = "ok"
                      /\ calls[c].status = "paid"
                      /\ calls[c].promises = calls[c].msgs
                   \/ RailSaidNotPaid(c)
          /\ calls[c].total > calls[c].invoice.amount
                => /\ calls[c].result = "amount_too_high"
                   /\ calls[c].status = "unbound"
                   /\ calls[c].promises = <<>>

C5_RejectLeavesFlag ==
    \A c \in Calls :
        (calls[c].pc = "get_invoice" /\ calls'[c].result = "amount_too_high")
            => invoices' = invoices

C5_Boundary == [] C5_BoundaryInv /\ [][C5_RejectLeavesFlag]_vars

C5_Witness ==
    \E c, d \in MintCalls :
        /\ FoundUnissued(c) /\ FoundUnissued(d)
        /\ calls[c].payment_hash = calls[d].payment_hash
        /\ calls[c].total = calls[c].invoice.amount /\ calls[c].result = "ok"
        /\ calls[d].total = calls[d].invoice.amount + 1
        /\ calls[d].result = "amount_too_high"
        /\ ~calls[d].after

\* request_mint returned a (payment_hash, payment_request) pair.
ReturnedPair(c) ==
    /\ calls[c].op = "request_mint"
    /\ calls[c].pc = "done" /\ calls[c].result = "ok"

C17_Inv ==
    /\ \A c \in Calls :
         calls[c].op = "request_mint" /\ calls[c].pc = "done" =>
            IF calls[c].result = "ok"
            THEN /\ calls[c].payment_hash \in Hashes
                 /\ invoices[calls[c].payment_hash].known
                 /\ invoices[calls[c].payment_hash].amount = calls[c].amount
            ELSE calls[c].result \in {"error", "mint_not_found"}
    /\ \A c \in MintCalls :
         (FoundUnissued(c) /\ calls[c].msgs # <<>>
          /\ calls[c].total <= calls[c].invoice.amount
          /\ calls[c].status = "paid") =>
            /\ calls[c].result = "ok"
            /\ Len(calls[c].promises) = Len(calls[c].msgs)
            /\ \A i \in DOMAIN calls[c].msgs :
                 calls[c].promises[i] = calls[c].msgs[i]

C17_Step ==
    /\ \A k \in DOMAIN rail : rail[k] = "paid" => rail'[k] = "paid"
    /\ \A c \in Calls :
         /\ (calls[c].op = "request_mint" /\ calls[c].pc = "store_invoice"
             /\ calls'[c].result = "ok") =>
               /\ ~invoices[calls[c].payment_hash].known
               /\ invoices'[calls[c].payment_hash] =
                    [known |-> TRUE, amount |-> calls[c].amount,
                     issued |-> FALSE]
         /\ (calls[c].op = "mint_coins" /\ calls[c].pc = "check_status"
             /\ calls'[c].pc # "check_status"
             /\ calls[c].cashu_id = opener[calls[c].payment_hash]
             /\ rail[<<cashus[calls[c].cashu_id].wallet,
                       calls[c].payment_hash>>] = "paid") =>
               /\ calls'[c].status = "paid"
               /\ calls'[c].pc = "generate_promises"

SetsIssued(h) == ~invoices[h].issued /\ invoices'[h].issued

\* The flag is set by a mint_coins call on that hash which the rail told
\* "paid" and which holds at least one signature, and which then returns.
C20_SetStep ==
    \A h \in Hashes :
        SetsIssued(h) =>
            \E c \in Calls :
                /\ calls[c].op = "mint_coins" /\ calls[c].pc = "update_invoice"
                /\ calls[c].payment_hash = h
                /\ calls[c].status = "paid"
                /\ Len(calls[c].promises) >= 1
                /\ calls'[c].pc = "done" /\ calls'[c].result = "ok"

C20_Inv ==
    /\ \A h \in Hashes :
         invoices[h].issued =>
            /\ issuedCount[h] >= 1 /\ issuedAmount[h] >= 1
            /\ \E w \in Wallets : rail[<<w, h>>] = "paid"
    /\ \A c \in MintCalls :
         calls[c].msgs = <<>> =>
            /\ calls[c].pc # "update_invoice"
            /\ calls[c].result # "ok"
            /\ calls[c].status = "paid" =>
                 (calls[c].pc = "generate_promises"
                  \/ (calls[c].pc = "done" /\ calls[c].result = "error"))

\* C20: every invoice whose issued flag is true was reported paid to the
\* mint_coins call that set the flag, and that call had generated at least
\* one signature before setting it; a mint_coins call with an empty list of
\* blinded messages never sets the flag.
C20_IssuedMeansPaidAndSigned == [] C20_Inv /\ [][C20_SetStep]_vars

C20_Witness ==
    \E c, d \in MintCalls :
        /\ calls[c].msgs = <<>> /\ calls[c].status = "paid"
        /\ calls[c].pc = "done" /\ calls[c].result = "error"
        /\ ~calls[c].after
        /\ calls[d].payment_hash = calls[c].payment_hash
        /\ calls[d].pc = "done" /\ calls[d].result = "ok"
        /\ invoices[calls[d].payment_hash].issued

\* ------------------------------------------------------------- the ledger
\* cashu's Ledger, as the handlers use it.

secrets_of(proofs) == {proofs[i] : i \in DOMAIN proofs}
amounts_of(proofs) == [i \in DOMAIN proofs |-> ProofTable[proofs[i]].amount]

\* ledger._verify_proof: the signature verifies and the secret is not spent.
verify_proof(p, used) == ProofTable[p].C_ok /\ p \notin used

\* ledger.check_spendable: per proof, whether its secret is still unspent.
ledger_check_spendable(proofs, used) ==
    [i \in DOMAIN proofs |-> proofs[i] \notin used]

\* ledger.split: the split point of the outputs, 0..Len(outputs), or -1 when
\* the request is refused: amount out of range, a proof given twice, outputs
\* that do not fall into a part of `amount` and a part of the rest, or a proof
\* that does not verify.
split_point(proofs, amount, outputs, used) ==
    LET total == sum(amounts_of(proofs))
        cuts == {k \in 0..Len(outputs) :
                    /\ sum(SubSeq(outputs, 1, k)) = amount
                    /\ sum(SubSeq(outputs, k + 1, Len(outputs))) = total - amount}
    IN  IF /\ amount >= 0 /\ amount <= total
           /\ Cardinality(secrets_of(proofs)) = Len(proofs)
           /\ cuts # {}
           /\ \A i \in DOMAIN proofs : verify_proof(proofs[i], used)
        THEN CHOOSE k \in cuts : \A j \in cuts : k <= j
        ELSE -1

\* -------------------------------------------------------------- melt_coins
\* Line 263 with the test inverted: proofs of this keyset refused.
SameKeyset_Inverted(proofs, cashu_id) ==
    \E i \in DOMAIN proofs :
        ProofTable[proofs[i]].id # cashus[cashu_id].keyset_id

\* lines 263 and 368: all([p.id == cashu.keyset_id for p in proofs])
SameKeyset(proofs, cashu_id) ==
    \A i \in DOMAIN proofs :
        ProofTable[proofs[i]].id = cashus[cashu_id].keyset_id

\* any() for all(): one good proof lets the others through.
ProofsVerify_Any(proofs, used) ==
    \E i \in DOMAIN proofs : verify_proof(proofs[i], used)

\* line 268: all([ledger._verify_proof(p) for p in proofs])
ProofsVerify(proofs, used) ==
    \A i \in DOMAIN proofs : verify_proof(proofs[i], used)

\* The fee reserve left out of the comparison.
EnoughProvided_NoFee(total_provided, amount, fees_msat) ==
    total_provided >= amount

\* line 283: total_provided >= amount + math.ceil(fees_msat / 1000)
EnoughProvided(total_provided, amount, fees_msat) ==
    total_provided >= amount + ceil_div(fees_msat, 1000)

\* The except clause of line 305 only logging.
StatusStepInvalidates_PaidOnly(raised, status) == ~raised /\ status = "paid"

\* lines 294-308: _invalidate_proofs runs when the status is paid, and in the
\* except clause when the status query raised.
StatusStepInvalidates(raised, status) == raised \/ status = "paid"

StartMelt(c, ids, prooflists, reqs) ==
    /\ Free(c)
    /\ \E id \in ids, proofs \in prooflists, pr \in reqs :
         Begin(c,
              [IdleCall EXCEPT !.op = "melt_coins", !.pc = "get_cashu",
                               !.cashu_id = id, !.proofs = proofs,
                               !.pr = pr, !.payment_hash = pr,
                               !.stale = secrets_of(proofs) \cap proofs_used])
    /\ UNCHANGED <<invoices, opener, rail, proofs_used,
                   issuedCount, issuedAmount, splitIssued>>

\* await get_cashu, then lines 257-275 up to the await on check_internal: the
\* keyset check, the verification of the proofs, the amounts.
MeltGetCashu(c) ==
    LET rec == calls[c]
        invoice_obj == bolt11_decode(rec.pr)
        got == [rec EXCEPT !.total = sum(amounts_of(rec.proofs)),
                           !.amount_msat = invoice_obj.amount_msat,
                           !.amount = ceil_div(invoice_obj.amount_msat, 1000)]
    IN
    /\ rec.op = "melt_coins" /\ rec.pc = "get_cashu"
    /\ IF get_cashu(rec.cashu_id) = None THEN Finish(c, rec, "mint_not_found")
       ELSE IF ~SameKeyset(rec.proofs, rec.cashu_id)
            THEN Finish(c, rec, "wrong_mint")
       ELSE IF ~ProofsVerify(rec.proofs, proofs_used)
            THEN Finish(c, rec, "invalid_proof")
       ELSE Goto(c, got, "check_internal")
    /\ UNCHANGED <<invoices, opener, rail, proofs_used,
                   issuedCount, issuedAmount, splitIssued>>

\* await check_internal, then lines 279-286: the fee reserve and the amount check.
MeltCheckInternal(c) ==
    LET rec == calls[c]
        internal_checking_id == check_internal(rec.payment_hash)
        fees_msat == IF ~internal_checking_id
                     THEN fee_reserve(rec.amount_msat) ELSE 0
        got == [rec EXCEPT !.internal = internal_checking_id,
                           !.fees_msat = fees_msat]
    IN
    /\ rec.op = "melt_coins" /\ rec.pc = "check_internal"
    /\ IF ~EnoughProvided(rec.total, rec.amount, fees_msat)
       THEN Finish(c, got, "insufficient")
       ELSE Goto(c, got, "pay_invoice")
    /\ UNCHANGED <<invoices, opener, rail, proofs_used,
                   issuedCount, issuedAmount, splitIssued>>

\* await pay_invoice(cashu.wallet, invoice).  It raises when the payment
\* cannot be made, and the exception leaves melt_coins.  Otherwise the payment
\* is out: an internal one settles the payee's invoice at once, an external
\* one is paid or still in flight when pay_invoice returns.
MeltPayInvoice(c) ==
    LET rec == calls[c]
        wallet == cashus[rec.cashu_id].wallet
        h == rec.payment_hash
        payees == {w \in Wallets : rail[<<w, h>>] = "open"}
    IN
    /\ rec.op = "melt_coins" /\ rec.pc = "pay_invoice"
    /\ \/ /\ Finish(c, rec, "payment_failed")
          /\ UNCHANGED rail
       \/ /\ \A w \in Wallets : rail[<<w, h>>] # "paid"
          /\ \/ /\ payees # {}
                /\ rail' = [k \in DOMAIN rail |->
                              IF k[2] = h /\ (k[1] = wallet \/ k[1] \in payees)
                              THEN "paid" ELSE rail[k]]
             \/ /\ payees = {}
                /\ rail[<<wallet, h>>] = None
                /\ \E st \in {"paid", "pending"} :
                     rail' = [rail EXCEPT ![<<wallet, h>>] = st]
          /\ Goto(c, [rec EXCEPT !.dispatched = TRUE], "check_status")
    /\ UNCHANGED <<invoices, opener, proofs_used, issuedCount, issuedAmount, splitIssued>>

\* `status` bound to an empty PaymentStatus ahead of the try: the return
\* statement after a raising query then answers paid = None.
MeltCheckStatus_StatusPreset(c) ==
    LET rec == calls[c]
        status == check_transaction_status(cashus[rec.cashu_id].wallet,
                                           rec.payment_hash)
    IN
    /\ rec.op = "melt_coins" /\ rec.pc = "check_status"
    /\ \E raised \in BOOLEAN :
         LET st == IF raised THEN None ELSE status
             inv == StatusStepInvalidates(raised, st)
             got == [rec EXCEPT !.status = st, !.invalidated = inv]
         IN  /\ proofs_used' = IF inv THEN proofs_used \cup secrets_of(rec.proofs)
                               ELSE proofs_used
             /\ Finish(c, got, "ok")
    /\ UNCHANGED <<invoices, opener, rail, issuedCount, issuedAmount, splitIssued>>

\* await check_transaction_status inside the try, lines 294-310.  Paid: the
\* proofs are invalidated and the response returned.  Not paid: the response
\* is returned.  The query raises: the except clause invalidates the proofs,
\* and the return statement then reads `status`, which was never bound.
MeltCheckStatus(c) ==
    LET rec == calls[c]
        status == check_transaction_status(cashus[rec.cashu_id].wallet,
                                           rec.payment_hash)
    IN
    /\ rec.op = "melt_coins" /\ rec.pc = "check_status"
    /\ \E raised \in BOOLEAN :
         LET st == IF raised THEN "unbound" ELSE status
             inv == StatusStepInvalidates(raised, st)
             got == [rec EXCEPT !.status = st, !.invalidated = inv]
         IN  /\ proofs_used' = IF inv THEN proofs_used \cup secrets_of(rec.proofs)
                               ELSE proofs_used
             /\ Finish(c, got, IF raised THEN "error" ELSE "ok")
    /\ UNCHANGED <<invoices, opener, rail, issuedCount, issuedAmount, splitIssued>>

\* ------------------------------------------------------------------- split
StartSplit(c, ids, prooflists, amounts, msgsets) ==
    /\ Free(c)
    /\ \E id \in ids, proofs \in prooflists, a \in amounts, outputs \in msgsets :
         Begin(c,
              [IdleCall EXCEPT !.op = "split", !.pc = "get_cashu",
                               !.cashu_id = id, !.proofs = proofs,
                               !.amount = a, !.msgs = outputs,
                               !.stale = secrets_of(proofs) \cap proofs_used])
    /\ UNCHANGED <<invoices, opener, rail, proofs_used,
                   issuedCount, issuedAmount, splitIssued>>

\* await get_cashu, then lines 363-376: the keyset check and `assert outputs`.
SplitGetCashu(c) ==
    LET rec == calls[c] IN
    /\ rec.op = "split" /\ rec.pc = "get_cashu"
    /\ IF get_cashu(rec.cashu_id) = None THEN Finish(c, rec, "mint_not_found")
       ELSE IF ~SameKeyset(rec.proofs, rec.cashu_id)
            THEN Finish(c, rec, "wrong_mint")
       ELSE IF rec.msgs = <<>> THEN Finish(c, rec, "no_outputs")
       ELSE Goto(c, rec, "ledger_split")
    /\ UNCHANGED <<invoices, opener, rail, proofs_used,
                   issuedCount, issuedAmount, splitIssued>>

\* The two lists unpacked the wrong way round.
PostSplitResponse_Swapped(split_return) ==
    [fst |-> split_return[2], snd |-> split_return[1]]

\* lines 391-392: frst_promises, scnd_promises = split_return;
\* PostSplitResponse(fst=frst_promises, snd=scnd_promises)
PostSplitResponse(split_return) ==
    [fst |-> split_return[1], snd |-> split_return[2]]

\* await ledger.split, lines 378-393: a refusal is a 400; otherwise the inputs
\* are spent and the two lists of promises returned.
SplitLedger(c) ==
    LET rec == calls[c]
        k == split_point(rec.proofs, rec.amount, rec.msgs, proofs_used)
        split_return ==
            <<generate_promises(SubSeq(rec.msgs, 1, k)),
              generate_promises(SubSeq(rec.msgs, k + 1, Len(rec.msgs)))>>
        resp == PostSplitResponse(split_return)
        got == [rec EXCEPT
                  !.total = sum(amounts_of(rec.proofs)),
                  !.promises = resp.fst,
                  !.snd = resp.snd,
                  !.invalidated = TRUE]
    IN
    /\ rec.op = "split" /\ rec.pc = "ledger_split"
    /\ IF k < 0
       THEN /\ Finish(c, rec, "split_failed")
            /\ UNCHANGED <<proofs_used, splitIssued>>
       ELSE /\ proofs_used' = proofs_used \cup secrets_of(rec.proofs)
            /\ splitIssued' = splitIssued + sum(resp.fst) + sum(resp.snd)
            /\ Finish(c, got, "ok")
    /\ UNCHANGED <<invoices, opener, rail, issuedCount, issuedAmount>>

\* --------------------------------------------------------- check_spendable
StartCheck(c, ids, prooflists) ==
    /\ Free(c)
    /\ \E id \in ids, proofs \in prooflists :
         Begin(c,
              [IdleCall EXCEPT !.op = "check_spendable", !.pc = "get_cashu",
                               !.cashu_id = id, !.proofs = proofs,
                               !.stale = secrets_of(proofs) \cap proofs_used])
    /\ UNCHANGED <<invoices, opener, rail, proofs_used,
                   issuedCount, issuedAmount, splitIssued>>

CheckGetCashu(c) ==
    LET rec == calls[c] IN
    /\ rec.op = "check_spendable" /\ rec.pc = "get_cashu"
    /\ IF get_cashu(rec.cashu_id) = None THEN Finish(c, rec, "mint_not_found")
       ELSE Goto(c, rec, "ledger_check")
    /\ UNCHANGED <<invoices, opener, rail, proofs_used,
                   issuedCount, issuedAmount, splitIssued>>

\* The mapping turned round: spent reported for spendable.
CheckResponse_Spent(proofs, used) ==
    [i \in DOMAIN proofs |-> ~ledger_check_spendable(proofs, used)[i]]

\* line 323: the ledger's mapping is the response.
CheckResponse(proofs, used) == ledger_check_spendable(proofs, used)

\* await ledger.check_spendable(payload.proofs), line 323.
CheckLedger(c) ==
    LET rec == calls[c]
        got == [rec EXCEPT !.spendable = CheckResponse(rec.proofs, proofs_used)]
    IN
    /\ rec.op = "check_spendable" /\ rec.pc = "ledger_check"
    /\ Finish(c, got, "ok")
    /\ UNCHANGED <<invoices, opener, rail, proofs_used,
                   issuedCount, issuedAmount, splitIssued>>

\* -------------------------------------------------------------- check_fees
StartCheckFees(c, ids, reqs) ==
    /\ Free(c)
    /\ \E id \in ids, pr \in reqs :
         Begin(c,
              [IdleCall EXCEPT !.op = "check_fees", !.pc = "get_cashu",
                               !.cashu_id = id, !.pr = pr])
    /\ UNCHANGED <<invoices, opener, rail, proofs_used,
                   issuedCount, issuedAmount, splitIssued>>

\* await get_cashu, then line 340: bolt11.decode(payload.pr).
CheckFeesGetCashu(c) ==
    LET rec == calls[c]
        invoice_obj == bolt11_decode(rec.pr)
        got == [rec EXCEPT !.payment_hash = invoice_obj.payment_hash,
                           !.amount_msat = invoice_obj.amount_msat]
    IN
    /\ rec.op = "check_fees" /\ rec.pc = "get_cashu"
    /\ IF get_cashu(rec.cashu_id) = None THEN Finish(c, rec, "mint_not_found")
       ELSE Goto(c, got, "check_internal")
    /\ UNCHANGED <<invoices, opener, rail, proofs_used,
                   issuedCount, issuedAmount, splitIssued>>

\* The fee rounded down to whole units.
CheckFeesResponse_Floor(fees_msat) == fees_msat \div 1000

\* line 347: CheckFeesResponse(fee=math.ceil(fees_msat / 1000))
CheckFeesResponse(fees_msat) == (fees_msat + 999) \div 1000

\* await check_internal, then lines 343-347.
CheckFeesInternal(c) ==
    LET rec == calls[c]
        internal_checking_id == check_internal(rec.payment_hash)
        fees_msat == IF ~internal_checking_id
                     THEN fee_reserve(rec.amount_msat) ELSE 0
        got == [rec EXCEPT !.internal = internal_checking_id,
                           !.fees_msat = fees_msat,
                           !.fee = CheckFeesResponse(fees_msat)]
    IN
    /\ rec.op = "check_fees" /\ rec.pc = "check_internal"
    /\ Finish(c, got, "ok")
    /\ UNCHANGED <<invoices, opener, rail, proofs_used,
                   issuedCount, issuedAmount, splitIssued>>

\* ----------------------------------------------------- the melt engine alone
MeltIds == {"m1", "mx"}
MeltReqs == {X1, I1}
MeltProofLists == SeqsUpTo({"s2"}, MaxProofs) \cup {<<"s1">>, <<"s3">>, <<"f1">>}

MeltStep(c) ==
    \/ StartMelt(c, MeltIds, MeltProofLists, MeltReqs)
    \/ MeltGetCashu(c)
    \/ MeltCheckInternal(c)
    \/ MeltPayInvoice(c)
    \/ MeltCheckStatus(c)

NextMelt == (\E c \in Calls : MeltStep(c)) \/ RailSettles(MeltReqs)

SpecMelt == Init /\ [][NextMelt]_vars

\* ------------------------------------------------------ claims, melt engine
MeltCalls == {c \in Calls : calls[c].op = "melt_coins"}

\* A melt_coins call that got past every validation step, to pay_invoice.
PastValidation(c) ==
    \/ calls[c].pc \in {"pay_invoice", "check_status"}
    \/ calls[c].pc = "done" /\ calls[c].result \in {"payment_failed", "ok", "error"}

\* C6: a melt_coins call that dispatched its payment has marked its proofs
\* spent, when it ends, if and only if the rail confirmed the payment paid.
C6_SpentIffPaid ==
    \A c \in MeltCalls :
        (calls[c].pc = "done" /\ calls[c].dispatched)
            => (calls[c].invalidated <=> calls[c].status = "paid")

\* C7 as stated: past validation, the proofs end up spent in every outcome
\* other than a confirmed payment as well.
C7_SpentOnEveryFailure_AsStated ==
    \A c \in MeltCalls :
        (calls[c].pc = "done" /\ PastValidation(c) /\ calls[c].status # "paid")
            => secrets_of(calls[c].proofs) \subseteq proofs_used

\* C7 (amended): past validation, the proofs end up marked spent when the
\* status query raises an exception (and the call then ends in an error); the
\* call does not mark them when pay_invoice fails, nor when the status query
\* reports the payment not paid.
C7_SpentOnStatusError ==
    \A c \in MeltCalls :
        (calls[c].pc = "done" /\ PastValidation(c)) =>
          /\ calls[c].result = "error" =>
                /\ calls[c].dispatched /\ calls[c].invalidated
                /\ secrets_of(calls[c].proofs) \subseteq proofs_used
          /\ calls[c].result = "payment_failed" =>
                ~calls[c].dispatched /\ ~calls[c].invalidated
          /\ (calls[c].result = "ok" /\ calls[c].status # "paid") =>
                ~calls[c].invalidated

C7_Witness ==
    \E c \in MeltCalls :
        /\ calls[c].pc = "done" /\ calls[c].result = "error"
        /\ calls[c].invalidated
        /\ secrets_of(calls[c].proofs) # {}
        /\ secrets_of(calls[c].proofs) \subseteq proofs_used

\* What the proofs of a melt must cover: the invoice amount in whole units,
\* plus the fee reserve (none for an internal payment), both rounded up.
Required(c) ==
    ceil_div(calls[c].amount_msat, 1000)
    + (IF calls[c].internal THEN 0
       ELSE ceil_div(fee_reserve(calls[c].amount_msat), 1000))

PastFeeCheck(c) ==
    PastValidation(c) \/ (calls[c].pc = "done" /\ calls[c].result = "insufficient")

C10_Rejected ==
    \A c \in MeltCalls :
        (PastFeeCheck(c) /\ calls[c].total < Required(c)) =>
            /\ calls[c].pc = "done" /\ calls[c].result = "insufficient"
            /\ ~calls[c].dispatched /\ ~calls[c].invalidated

C10_RejectChangesNothing ==
    \A c \in Calls :
        (calls[c].pc = "check_internal" /\ calls'[c].result = "insufficient")
            => /\ proofs_used' = proofs_used
               /\ rail' = rail

\* C10: a melt whose proofs sum to less than the target amount plus the fee
\* reserve is rejected before pay_invoice: it dispatches no payment and marks
\* no proof spent, and the rejecting step changes neither the spent set nor
\* the rail.
C10_Underfunded == [] C10_Rejected /\ [][C10_RejectChangesNothing]_vars

C10_Witness ==
    \E c \in MeltCalls :
        /\ calls[c].pc = "done" /\ calls[c].result = "insufficient"
        /\ ~calls[c].internal
        /\ calls[c].total = calls[c].amount
        /\ calls[c].total < Required(c)

\* melt_coins returned a GetMeltResponse to the caller.
MeltResponded(c) ==
    /\ calls[c].op = "melt_coins"
    /\ calls[c].pc = "done" /\ calls[c].result = "ok"

\* The status query of the call raised: the payment is out and no status
\* was ever bound.
StatusQueryRaised(c) ==
    /\ calls[c].op = "melt_coins" /\ calls[c].pc = "done"
    /\ calls[c].dispatched /\ calls[c].status = "unbound"

\* C19: a melt_coins call that returns a response answers paid = true if and
\* only if it marked its proofs spent; a call whose status query raised has
\* marked its proofs spent and ends in an error, with no response.
C19_ResponseTellsSpent ==
    \A c \in MeltCalls :
        /\ MeltResponded(c) =>
              /\ calls[c].dispatched
              /\ calls[c].status # "unbound"
              /\ calls[c].status = "paid" <=> calls[c].invalidated
              /\ calls[c].invalidated =>
                    secrets_of(calls[c].proofs) \subseteq proofs_used
        /\ StatusQueryRaised(c) =>
              /\ calls[c].invalidated
              /\ secrets_of(calls[c].proofs) \subseteq proofs_used
              /\ calls[c].result = "error"
        /\ (calls[c].pc = "done" /\ calls[c].invalidated) =>
              (MeltResponded(c) \/ StatusQueryRaised(c))

C19_Witness ==
    \E c, d \in MeltCalls :
        /\ MeltResponded(c) /\ calls[c].status = "paid" /\ calls[c].invalidated
        /\ StatusQueryRaised(d) /\ calls[d].invalidated
        /\ calls[d].result = "error"

\* ------------------------------------- melt, split and check on shared proofs
SpendIds == {"m1"}
SpendProofLists == {<<"s2">>, <<"s1", "s2">>}
SpendReqs == {X1, X2}
SplitAmounts == {1}
SplitOutputs == {<<>>, <<1, 1>>, <<1, 2>>}

SpendStep(c) ==
    \/ StartMelt(c, SpendIds, SpendProofLists, SpendReqs)
    \/ MeltGetCashu(c)
    \/ MeltCheckInternal(c)
    \/ MeltPayInvoice(c)
    \/ MeltCheckStatus(c)
    \/ StartSplit(c, SpendIds, SpendProofLists, SplitAmounts, SplitOutputs)
    \/ SplitGetCashu(c)
    \/ SplitLedger(c)
    \/ StartCheck(c, SpendIds, SpendProofLists)
    \/ CheckGetCashu(c)
    \/ CheckLedger(c)

NextSpend == \E c \in Calls : SpendStep(c)

SpecSpend == Init /\ [][NextSpend]_vars

\* ------------------------------------------------- claims, shared proofs
SpendCalls == {c \in Calls : calls[c].op \in {"melt_coins", "split"}}

\* The operation went through on its proofs: a melt had its outbound payment
\* executed, a split had its outputs signed.
Succeeded(c) ==
    \/ calls[c].op = "melt_coins" /\ calls[c].dispatched
    \/ calls[c].op = "split" /\ calls[c].pc = "done" /\ calls[c].result = "ok"

\* The two calls were in flight at the same time.
Concurrent(c, d) == d \in calls[c].peers \/ c \in calls[d].peers

SharedProofs(c, d) == secrets_of(calls[c].proofs) \cap secrets_of(calls[d].proofs)

\* C8: of two operations (melt or split) that were in flight together and
\* share a proof, at most one has its payment executed or its outputs signed.
C8_NoConcurrentDoubleSpend ==
    \A c, d \in SpendCalls :
        (c # d /\ Concurrent(c, d) /\ SharedProofs(c, d) # {})
            => ~(Succeeded(c) /\ Succeeded(d))

\* What a split or melt that includes an already spent proof comes to: it is
\* refused, signs nothing, pays nothing, marks nothing.
Refused(c) ==
    /\ calls[c].pc \notin {"check_internal", "pay_invoice", "check_status"}
    /\ ~calls[c].dispatched /\ ~calls[c].invalidated
    /\ calls[c].promises = <<>> /\ calls[c].snd = <<>>
    /\ calls[c].pc = "done" =>
          calls[c].result \in {"invalid_proof", "split_failed", "wrong_mint",
                               "no_outputs", "mint_not_found"}

C9_SpentIsRejected ==
    /\ \A c \in SpendCalls : calls[c].stale # {} => Refused(c)
    /\ \A c \in Calls :
         (calls[c].op = "check_spendable" /\ calls[c].pc = "done"
          /\ calls[c].result = "ok") =>
            \A i \in DOMAIN calls[c].proofs :
                calls[c].proofs[i] \in calls[c].stale => ~calls[c].spendable[i]

C9_SpentStaysSpent == proofs_used \subseteq proofs_used'

\* C9: a proof that is marked spent stays spent; every split and melt_coins
\* call that starts afterwards and includes it is refused (no output signed,
\* no payment dispatched), and check_spendable reports it not spendable.
C9_SpentForGood == [] C9_SpentIsRejected /\ [][C9_SpentStaysSpent]_vars

C9_Witness ==
    \E c, d \in Calls :
        /\ calls[c].op = "melt_coins" /\ calls[c].pc = "done"
        /\ calls[c].stale # {} /\ calls[c].result = "invalid_proof"
        /\ secrets_of(calls[c].proofs) \ calls[c].stale # {}
        /\ calls[d].op = "check_spendable" /\ calls[d].pc = "done"
        /\ calls[d].stale # {}
        /\ \E i \in DOMAIN calls[d].spendable : ~calls[d].spendable[i]

\* ------------------------------------------------------------ claims, split
SplitCalls == {c \in Calls : calls[c].op = "split"}

SplitOk(c) == calls[c].pc = "done" /\ calls[c].result = "ok"

C12_SplitInv ==
    \A c \in SplitCalls :
        LET inputs == sum(amounts_of(calls[c].proofs)) IN
        /\ SplitOk(c) =>
              /\ calls[c].invalidated
              /\ secrets_of(calls[c].proofs) \subseteq proofs_used
              /\ calls[c].promises \o calls[c].snd = calls[c].msgs
              /\ sum(calls[c].promises) = calls[c].amount
              /\ sum(calls[c].snd) = inputs - calls[c].amount
              /\ sum(calls[c].promises) + sum(calls[c].snd) = inputs
        /\ ~SplitOk(c) =>
              /\ ~calls[c].invalidated
              /\ calls[c].promises = <<>> /\ calls[c].snd = <<>>
        /\ (calls[c].pc = "done" /\ sum(calls[c].msgs) # inputs) =>
              calls[c].result # "ok"

C12_SplitStep ==
    \A c \in Calls :
        (calls[c].op = "split" /\ calls[c].pc \in {"get_cashu", "ledger_split"}
         /\ calls'[c].pc # calls[c].pc) =>
            \/ /\ calls'[c].result = "ok"
               /\ calls[c].pc = "ledger_split"
               /\ calls'[c].promises \o calls'[c].snd = calls[c].msgs
               /\ proofs_used' = proofs_used \cup secrets_of(calls[c].proofs)
            \/ /\ calls'[c].result # "ok"
               /\ calls'[c].promises = <<>> /\ calls'[c].snd = <<>>
               /\ proofs_used' = proofs_used

\* C12: a split marks all of its inputs spent and returns signatures for all
\* of its outputs, the first list summing to split_amount and the second to
\* sum(inputs) - split_amount, or it marks none and signs none; outputs that
\* do not sum to the input total are refused with no proof marked spent.
C12_SplitAllOrNothing == [] C12_SplitInv /\ [][C12_SplitStep]_vars

C12_Witness ==
    \E c, d \in SplitCalls :
        /\ SplitOk(c)
        /\ sum(amounts_of(calls[c].proofs)) = 3 /\ calls[c].amount = 1
        /\ calls[c].promises = <<1>> /\ calls[c].snd = <<2>>
        /\ calls[d].pc = "done" /\ calls[d].result = "split_failed"
        /\ sum(calls[d].msgs) # sum(amounts_of(calls[d].proofs))
        /\ calls[d].stale = {}

\* -------------------------------------------------- claims, check_spendable
CheckCalls == {c \in Calls : calls[c].op = "check_spendable"}

CheckOk(c) ==
    /\ calls[c].op = "check_spendable"
    /\ calls[c].pc = "done" /\ calls[c].result = "ok"

\* No step of a check_spendable call changes the spent set, the invoices or
\* the rail, and the step that answers reports false for exactly the proofs
\* that are in the spent set at that moment.
C13_CheckStep ==
    \A c \in Calls :
        (calls[c].op = "check_spendable"
         /\ calls[c].pc \in {"get_cashu", "ledger_check"}
         /\ calls'[c].pc # calls[c].pc) =>
            /\ proofs_used' = proofs_used
            /\ invoices' = invoices
            /\ rail' = rail
            /\ calls'[c].result = "ok" =>
                 /\ DOMAIN calls'[c].spendable = DOMAIN calls[c].proofs
                 /\ \A i \in DOMAIN calls[c].proofs :
                      calls'[c].spendable[i] = FALSE
                          <=> calls[c].proofs[i] \in proofs_used

\* Two calls on the same proofs, none of which was spent since either call
\* began, give the same mapping.
C13_SameAnswer ==
    \A c, d \in CheckCalls :
        (CheckOk(c) /\ CheckOk(d) /\ calls[c].proofs = calls[d].proofs
         /\ secrets_of(calls[c].proofs) \cap proofs_used = calls[c].stale
         /\ calls[d].stale = calls[c].stale)
            => calls[c].spendable = calls[d].spendable

\* C13: check_spendable changes nothing, reports false exactly for the proofs
\* in the spent set when it asks the ledger, and calls with no spend between
\* them return the same mapping.
C13_CheckIsPure == [] C13_SameAnswer /\ [][C13_CheckStep]_vars

C13_Witness ==
    \E c, d \in CheckCalls :
        /\ c # d /\ CheckOk(c) /\ CheckOk(d)
        /\ calls[c].proofs = <<"s1", "s2">> /\ calls[d].proofs = <<"s1", "s2">>
        /\ calls[c].spendable = <<TRUE, FALSE>>
        /\ calls[d].spendable = <<TRUE, FALSE>>
        /\ proofs_used = {"s2"}

\* ------------------------------------------ proofs of another mint's keyset
\* Mint m1 (keyset k1) is handed proofs of keyset k2 (s3), alone and mixed with
\* its own.
IsoIds == {"m1"}
IsoProofLists == {<<"s2">>, <<"s3">>, <<"s2", "s3">>}
IsoReqs == {X1}
IsoAmounts == {1}
IsoOutputs == {<<1, 1>>}

IsoStep(c) ==
    \/ StartMelt(c, IsoIds, IsoProofLists, IsoReqs)
    \/ MeltGetCashu(c)
    \/ MeltCheckInternal(c)
    \/ MeltPayInvoice(c)
    \/ MeltCheckStatus(c)
    \/ StartSplit(c, IsoIds, IsoProofLists, IsoAmounts, IsoOutputs)
    \/ SplitGetCashu(c)
    \/ SplitLedger(c)
    \/ StartCheck(c, IsoIds, IsoProofLists)
    \/ CheckGetCashu(c)
    \/ CheckLedger(c)

NextIso == \E c \in Calls : IsoStep(c)

SpecIso == Init /\ [][NextIso]_vars

\* ------------------------------------------------- claims, mint isolation
ProofCalls ==
    {c \in Calls : calls[c].op \in {"melt_coins", "split", "check_spendable"}}

\* The request carries a proof of a keyset other than the mint's.
HasForeignProof(c) ==
    /\ get_cashu(calls[c].cashu_id) # None
    /\ \E i \in DOMAIN calls[c].proofs :
         ProofTable[calls[c].proofs[i]].id # cashus[calls[c].cashu_id].keyset_id

\* C11: a melt, split or check request on mint M that carries a proof of
\* another keyset is rejected as coming from another mint, with nothing
\* marked spent, nothing dispatched and no answer about the proofs.
C11_WrongMintRejected ==
    \A c \in ProofCalls :
        (HasForeignProof(c) /\ calls[c].pc = "done") =>
            /\ calls[c].result = "wrong_mint"
            /\ ~calls[c].dispatched /\ ~calls[c].invalidated
            /\ calls[c].spendable = <<>>


\* ------------------------------------------------- the four engines together
AllIds == {"m1", "mx"}
AllAmounts == {1}
AllMsgLists == {<<1>>, <<2>>}
AllProofLists == {<<"s1">>, <<"s2">>, <<"s3">>, <<"f1">>}
AllReqs == {X1}
AllOutputs == {<<>>, <<1, 1>>}

\* One client mints while another spends: slot 1 takes the calls of the mint
\* engine, slot 2 those of the melt and split engines.
AllMintStep(c) ==
    \/ StartRequestMint(c, AllIds, AllAmounts)
    \/ RequestMintGetCashu(c)
    \/ RequestMintCreateInvoice(c)
    \/ RequestMintStore(c)
    \/ StartMintCoins(c, AllIds, Hashes, AllMsgLists)
    \/ MintGetCashu(c)
    \/ MintGetInvoice(c)
    \/ MintCheckStatus(c)
    \/ MintGeneratePromises(c)
    \/ MintUpdateInvoice(c)

AllSpendStep(c) ==
    \/ StartMelt(c, AllIds, AllProofLists, AllReqs)
    \/ MeltGetCashu(c)
    \/ MeltCheckInternal(c)
    \/ MeltPayInvoice(c)
    \/ MeltCheckStatus(c)
    \/ StartSplit(c, AllIds, AllProofLists, AllAmounts, AllOutputs)
    \/ SplitGetCashu(c)
    \/ SplitLedger(c)

NextAll ==
    \/ AllMintStep(1)
    \/ \E c \in Calls \ {1} : AllSpendStep(c)
    \/ RailStep(Hashes)
    \/ RailSettles(AllReqs)

SpecAll == Init /\ [][NextAll]_vars


\* ------------------------------------------------ claims, the four engines
\* How a call ends when one of its validation steps rejects it.
ValidationRejections ==
    {"mint_not_found", "invoice_not_found", "already_issued",
     "amount_too_high", "not_paid", "wrong_mint", "invalid_proof",
     "no_outputs", "split_failed", "insufficient"}

Rejected(c) ==
    calls[c].pc = "done" /\ calls[c].result \in ValidationRejections

\* The step that rejects changes no invoice, no spent proof, no payment.
C14_RejectStep ==
    \A c \in Calls :
        (~Free(c) /\ calls'[c].pc = "done"
         /\ calls'[c].result \in ValidationRejections) =>
            /\ invoices' = invoices
            /\ proofs_used' = proofs_used
            /\ rail' = rail

\* No earlier step of a rejected call changed anything either: it opened no
\* invoice, dispatched no payment, marked no proof and signed nothing.
C14_RejectedInv ==
    \A c \in Calls :
        Rejected(c) =>
            /\ ~calls[c].dispatched /\ ~calls[c].invalidated
            /\ calls[c].promises = <<>> /\ calls[c].snd = <<>>
            /\ calls[c].op = "request_mint" => calls[c].payment_hash = NoHash
            /\ calls[c].op # "mint_coins" => calls[c].status = "unbound"

\* C14: a request_mint, mint_coins, split or melt_coins call that a validation
\* step rejects leaves every issued flag and the spent set as they were and
\* dispatches no outbound payment.
C14_RejectionIsClean == [] C14_RejectedInv /\ [][C14_RejectStep]_vars

C14_Witness ==
    \E c, d \in Calls :
        /\ calls[c].op = "mint_coins" /\ Rejected(c)
        /\ calls[c].result = "not_paid"
        /\ calls[c].invoice.known /\ ~invoices[calls[c].payment_hash].issued
        /\ calls[d].op = "melt_coins" /\ Rejected(d)
        /\ calls[d].result = "insufficient"
        /\ proofs_used = {"s2"}


\* Value accounting.  The proofs of ProofTable that verify are the tokens in
\* circulation at the start, backed by funds received before.
RECURSIVE SumOver(_, _)
SumOver(S, f) ==
    IF S = {} THEN 0
    ELSE LET x == CHOOSE y \in S : TRUE IN f[x] + SumOver(S \ {x}, f)

ValidSecrets == {p \in Secrets : ProofTable[p].C_ok}
InitialSupply == SumOver(ValidSecrets, [p \in Secrets |-> ProofTable[p].amount])
MintWallets == {cashus[id].wallet : id \in DOMAIN cashus}

\* Tokens issued and not marked spent.
LiveValue ==
    SumOver(ValidSecrets \ proofs_used, [p \in Secrets |-> ProofTable[p].amount])
    + SumOver(Hashes, issuedAmount)
    + splitIssued

\* Received on paid mint invoices.
Received ==
    SumOver({h \in Hashes : /\ invoices[h].known
                            /\ rail[<<cashus[opener[h]].wallet, h>>] = "paid"},
            [h \in Hashes |-> invoices[h].amount])

\* Paid out by melts: the outbound payments of the mints' wallets that settled.
PaidOut ==
    SumOver({k \in MintWallets \X ExtReqs : rail[k] = "paid"},
            [k \in MintWallets \X ExtReqs |->
                ceil_div(bolt11_decode(k[2]).amount_msat, 1000)])

AtRest ==
    /\ \A c \in Calls : Free(c)
    /\ \A k \in DOMAIN rail : rail[k] # "pending"

\* C15: the tokens issued and not marked spent are worth at most what was
\* received on paid mint invoices less what melts paid out.  Stated for the
\* states at rest (no call in flight, no payment pending), which every
\* reachable state of the claim includes.
C15_TokensBacked ==
    AtRest => LiveValue <= InitialSupply + Received - PaidOut


\* ---------------------------------------------------- melt and check_fees
FeeIds == {"m1"}
FeeReqs == {X2, I1}
FeeProofLists == {<<"s2">>, <<"s1", "s2">>}

FeeStep(c) ==
    \/ StartMelt(c, FeeIds, FeeProofLists, FeeReqs)
    \/ MeltGetCashu(c)
    \/ MeltCheckInternal(c)
    \/ MeltPayInvoice(c)
    \/ MeltCheckStatus(c)
    \/ StartCheckFees(c, FeeIds \cup {"mx"}, FeeReqs)
    \/ CheckFeesGetCashu(c)
    \/ CheckFeesInternal(c)

NextFee == (\E c \in Calls : FeeStep(c)) \/ RailSettles(FeeReqs)

SpecFee == Init /\ [][NextFee]_vars

\* ------------------------------------------------------- claims, check_fees
FeeCalls ==
    {c \in Calls : /\ calls[c].op = "check_fees"
                   /\ calls[c].pc = "done" /\ calls[c].result = "ok"}

\* The melt passed its amount check (on to pay_invoice), or failed it.
PassedFeeCheck(c) == PastValidation(c)
FailedFeeCheck(c) == calls[c].pc = "done" /\ calls[c].result = "insufficient"

ScopeMsgLists == {<<1>>}
ScopeProofLists == {<<"s2">>}
\* The payment requests request_mint has handed out so far.
HandedOut == {h \in Hashes : invoices[h].known}

ScopeStep(c) ==
    \/ StartRequestMint(c, {"m2"}, {1})
    \/ RequestMintGetCashu(c)
    \/ RequestMintCreateInvoice(c)
    \/ RequestMintStore(c)
    \/ StartMintCoins(c, {"m1", "m2"}, Hashes, ScopeMsgLists)
    \/ MintGetCashu(c)
    \/ MintGetInvoice(c)
    \/ MintCheckStatus(c)
    \/ MintGeneratePromises(c)
    \/ MintUpdateInvoice(c)
    \/ StartMelt(c, {"m1"}, ScopeProofLists, HandedOut \cup {X1})
    \/ MeltGetCashu(c)
    \/ MeltCheckInternal(c)
    \/ MeltPayInvoice(c)
    \/ MeltCheckStatus(c)

NextScope == (\E c \in Calls : ScopeStep(c)) \/ RailStep(Hashes \cup {X1})

SpecScope == Init /\ [][NextScope]_vars

\* C18: mint_coins on mint M returns signatures for a payment hash only if
\* request_mint on M opened the invoice of that hash, whatever the rail
\* reports for the hash on M's account.
C18_InvoiceScopedToMint ==
    \A c \in MintCalls :
        (calls[c].promises # <<>> \/ calls[c].result = "ok")
            => opener[calls[c].payment_hash] = calls[c].cashu_id


====
